---- MODULE Spec2Model ----
(***************************************************************************)
(* The delegated routing server of repro.mjs: an in-memory provider        *)
(* directory (providersByCid) behind an HTTP request handler, the          *)
(* announceProvider / getProviderQueryCount interface, and main's          *)
(* lifecycle around them.                                                  *)
(*                                                                         *)
(* Text is a sequence of units.  A unit is one character or chunk of       *)
(* characters: a multibase prefix ("b", "z", "k", "Q"), the payload that   *)
(* encodes one digest ("d1", "d2"), a base32 padding character "=", a      *)
(* percent escape ("%62" is "b"), or a malformed escape ("%").  A URL      *)
(* path is the unit naming its directory part followed by the units of    *)
(* its last segment.                                                       *)
(*                                                                         *)
(* Time is Date.now() in milliseconds, counted from the start of the       *)
(* process, and never runs backwards.                                      *)
(***************************************************************************)
EXTENDS Integers, Sequences, FiniteSets, TLC

VARIABLES
  providersByCid,      \* Map: canonical text -> [peerRecord, expiresAt]
  providerQueryCount,  \* let providerQueryCount
  clock,               \* the value Date.now() returns
  ticks,               \* how many times the clock has advanced
  serverState,         \* "new" | "listening" | "closed" | "exited"
  last,                \* the last operation and what it answered
  announced,           \* history: the last announce of each identifier
  lookupsReceived,     \* history: the provider-lookup requests received
  announces,           \* history: the calls of announceProvider
  inflight,            \* the request handler's frame while it is on the stack
  mainPc,              \* main's position
  provider,            \* main's let provider: "undefined" | "created" | "started" | "stopped"
  resolver,            \* main's let resolver, likewise
  contentCid,          \* main's const contentCid
  failure,             \* where main's try block threw, "none" while it has not
  stopErrors,          \* the nodes whose stop() failed
  envRouterPort,       \* process.env.DELEGATED_ROUTER_PORT
  routerPort,          \* main's const routerPort
  actualPort           \* server.address().port, 0 while the server is not bound

vars == <<providersByCid, providerQueryCount, clock, ticks, serverState, last,
          announced, lookupsReceived, announces, inflight, mainPc, provider,
          resolver, contentCid, failure, stopErrors, envRouterPort, routerPort,
          actualPort>>

routerVars == <<providersByCid, providerQueryCount, clock, ticks, serverState,
                last, announced, lookupsReceived, announces>>
portVars == <<envRouterPort, routerPort, actualPort>>
mainVars == <<mainPc, provider, resolver, contentCid, failure, stopErrors, portVars>>

----------------------------------------------------------------------------
(* Bounds of the model *)

MaxTicks == 2
MaxQueries == 2
MaxAnnounces == 2

(* Program constants *)

PROVIDER_TTL_MS == 24 * 60 * 60 * 1000
DEFAULT_ROUTER_PORT == 25150

----------------------------------------------------------------------------
(* Content identifiers and their text *)

\* The payloads that encode a digest; every other payload is no encoding.
Digests == {"d1", "d2", "d3"}

\* A CID object: version and the digest it wraps.
Cids == [version : {0, 1}, digest : Digests]

\* Text that follows the multibase prefix, with base32's trailing "="
\* padding dropped (the rfc4648 decoder skips it).
RECURSIVE StripPadding(_)
StripPadding(s) ==
  IF s # <<>> /\ s[Len(s)] = "=" THEN StripPadding(SubSeq(s, 1, Len(s) - 1))
  ELSE s

\* The bytes a multibase string decodes to: the digest its payload encodes,
\* or failure.
DecodePayload(prefix, payload) ==
  LET p == IF prefix = "b" THEN StripPadding(payload) ELSE payload
  IN  IF Len(p) = 1 /\ p[1] \in Digests
      THEN [ok |-> TRUE, digest |-> p[1]]
      ELSE [ok |-> FALSE, digest |-> ""]

\* CID.parse(source): "Q..." is a version 0 identifier in base58btc, "z", "b"
\* and "k" are base58btc, base32 and base36; anything else throws.
CIDParse(source) ==
  IF source = <<>> \/ source[1] \notin {"Q", "z", "b", "k"}
  THEN [ok |-> FALSE, cid |-> [version |-> 1, digest |-> ""]]
  ELSE LET d == DecodePayload(source[1], Tail(source))
       IN  [ok |-> d.ok,
            cid |-> [version |-> IF source[1] = "Q" THEN 0 ELSE 1,
                     digest |-> d.digest]]

\* cid.toString() of a CID object that was not parsed from text: base58btc
\* without prefix for version 0, base32 for version 1.
CIDToString(cid) ==
  IF cid.version = 0 THEN <<"Q", cid.digest>> ELSE <<"b", cid.digest>>

\* A slip: the text as it came, never re-encoded.
CIDParseToString_AsGiven(source) == source

\* CID.parse(source).toString(): parse keeps the source under its multibase
\* prefix, and toString answers from that cache when the prefix is the one
\* it would encode with.
CIDParseToString(source) ==
  LET cid == CIDParse(source).cid
  IN  IF source[1] \in {"Q", "b"} THEN source ELSE CIDToString(cid)

----------------------------------------------------------------------------
(* Requests *)

ProvidersPrefix == "/routing/v1/providers/"

MalformedEscape(u) == u \in {"%", "%G1"}

DecodeUnit(u) ==
  CASE u = "%62" -> "b"
    [] u = "%7A" -> "z"
    [] u = "%3D" -> "="
    [] OTHER -> u

\* decodeURIComponent(text): URIError on a malformed escape.
decodeURIComponent(text) ==
  IF \E i \in DOMAIN text : MalformedEscape(text[i])
  THEN [ok |-> FALSE, value |-> <<>>]
  ELSE [ok |-> TRUE, value |-> [i \in DOMAIN text |-> DecodeUnit(text[i])]]

GoodHost == "127.0.0.1:25150"
BadHost == "a b"

\* new URL(req.url, `http://${req.headers.host}`): TypeError when the base
\* is no URL; the pathname is the request target without its query.
NewURL(target, host) ==
  IF host = BadHost
  THEN [ok |-> FALSE, pathname |-> <<>>]
  ELSE [ok |-> TRUE, pathname |-> target.path]

PeerRecords ==
  { [ID |-> "peerA", Addrs |-> <<"/ip4/127.0.0.1/tcp/4001">>, Protocols |-> <<>>],
    [ID |-> "peerB", Addrs |-> <<"/ip4/127.0.0.1/tcp/4002">>, Protocols |-> <<>>] }

\* The request targets and headers the model sends.
Target(dir, segment, query) == [path |-> <<dir>> \o segment, query |-> query]

IdentifierSegments ==
  { <<"b", "d1">>,                                 \* base32, the canonical text
    <<"z", "d1">>,                                 \* base58btc
    <<"%62", "d1">>,                               \* percent-encoded
    <<"b", "d1", "=">>,                            \* base32 with padding
    <<"n", "ot-a-cid">>,                           \* no identifier
    <<"%">> }                                      \* a malformed escape

Requests ==
  { [method |-> "GET", host |-> GoodHost, target |-> Target(ProvidersPrefix, s, "")] :
      s \in IdentifierSegments }
  \cup
  { [method |-> "GET", host |-> BadHost,
     target |-> Target(ProvidersPrefix, <<"b", "d1">>, "")],
    [method |-> "POST", host |-> BadHost,
     target |-> Target("/routing/v1/ipns/", <<"k", "d1">>, "")],
    [method |-> "POST", host |-> GoodHost,
     target |-> Target(ProvidersPrefix, <<"b", "d1">>, "")],
    [method |-> "GET", host |-> GoodHost,
     target |-> Target("/routing/v1/ipns/", <<"k", "d1">>, "?x=1")] }

\* The identifiers a collaborator announces: a version 1 and a version 0
\* identifier (of the same digest; they are two identifiers).
AnnouncedCids == { c \in Cids : c.digest = "d1" }

----------------------------------------------------------------------------
(* The response object *)

NoBody == [none |-> TRUE]
EmptyProviders == [Providers |-> <<>>]
NotFoundBody == [message |-> "not found"]

NewResponse ==
  [writeHeadCalls |-> 0, endCalls |-> 0, statusCode |-> 0,
   contentType |-> "", body |-> NoBody]

\* res.writeHead(status, { "Content-Type": "application/json" })
WriteHead(res, status) ==
  [res EXCEPT !.writeHeadCalls = @ + 1, !.statusCode = status,
              !.contentType = "application/json"]

\* res.end(JSON.stringify(body))
End(res, body) == [res EXCEPT !.endCalls = @ + 1, !.body = body]

----------------------------------------------------------------------------
(* The Map *)

EmptyMap == [k \in {} |-> 0]
MapHas(m, k) == k \in DOMAIN m
MapSet(m, k, v) == [x \in (DOMAIN m) \cup {k} |-> IF x = k THEN v ELSE m[x]]
\* A slip: nothing is deleted.
MapDelete_Keep(m, k) == m
\* A slip: the whole Map is cleared.
MapDelete_Clear(m, k) == [x \in {} |-> 0]
MapDelete(m, k) == [x \in (DOMAIN m) \ {k} |-> m[x]]

\* What providersByCid.get answers for a key the Map does not hold.
UndefinedEntry ==
  [peerRecord |-> [ID |-> "", Addrs |-> <<>>, Protocols |-> <<>>], expiresAt |-> -1]

MapGet(m, k) == IF MapHas(m, k) THEN m[k] ELSE UndefinedEntry

----------------------------------------------------------------------------
(* The request handler, http.createServer((req, res) => ...) *)

\* A slip: the method is not looked at.
RouteMatches_AnyMethod(method, pathname) ==
  pathname # <<>> /\ pathname[1] = ProvidersPrefix

\* req.method === "GET" && url.pathname.startsWith("/routing/v1/providers/")
RouteMatches(method, pathname) ==
  method = "GET" /\ pathname # <<>> /\ pathname[1] = ProvidersPrefix

\* providerQueryCount += 1
CountQuery(count) == count + 1

\* A slip: an entry still served in the millisecond it expires.
Expired_Late(entry, now) == entry.expiresAt < now

\* entry.expiresAt <= Date.now()
Expired(entry, now) == entry.expiresAt <= now

Outcome(branch, threw, res, map, count, key) ==
  [branch |-> branch, threw |-> threw, res |-> res, map |-> map,
   count |-> count, key |-> key]

\* The handler down to providersByCid.get(normalizedCid): it throws, answers,
\* or goes on to the lookup with the entry it read.
HandlerPrefix(req, map, count) ==
  LET url == NewURL(req.target, req.host)
  IN
  IF ~url.ok
  THEN Outcome("threw", "TypeError", NewResponse, map, count, <<>>)
  ELSE IF RouteMatches(req.method, url.pathname)
  THEN LET counted == CountQuery(count)
           cidPart == Tail(url.pathname)
           requestedCid == decodeURIComponent(cidPart)
       IN  IF ~requestedCid.ok
           THEN Outcome("threw", "URIError", NewResponse, map, counted, <<>>)
           ELSE IF ~CIDParse(requestedCid.value).ok
           THEN Outcome("invalid", "none",
                        End(WriteHead(NewResponse, 422), EmptyProviders),
                        map, counted, <<>>)
           ELSE Outcome("lookup", "none", NewResponse, map, counted,
                        CIDParseToString(requestedCid.value))
  ELSE Outcome("unroutable", "none",
               End(WriteHead(NewResponse, 404), NotFoundBody), map, count, <<>>)

\* From if (!entry || entry.expiresAt <= Date.now()) to the end, with the
\* entry the handler read and the two values Date.now() returns.
LookupBranch(map, count, key, hasEntry, entry, now1, now2) ==
  IF ~hasEntry \/ Expired(entry, now1)
  THEN Outcome(IF hasEntry THEN "expired" ELSE "miss", "none",
               End(WriteHead(NewResponse, 404), EmptyProviders),
               IF hasEntry /\ Expired(entry, now2) THEN MapDelete(map, key) ELSE map,
               count, key)
  ELSE Outcome("hit", "none",
               End(WriteHead(NewResponse, 200), [Providers |-> <<entry.peerRecord>>]),
               map, count, key)

\* The whole handler.
RequestHandler(req, map, count, now1, now2) ==
  LET p == HandlerPrefix(req, map, count)
  IN  IF p.branch = "lookup"
      THEN LookupBranch(p.map, p.count, p.key, MapHas(p.map, p.key),
                        MapGet(p.map, p.key), now1, now2)
      ELSE p

----------------------------------------------------------------------------
(* announceProvider and getProviderQueryCount *)

\* A slip: the TTL taken in seconds.
ExpiresAt_Seconds(now) == now + PROVIDER_TTL_MS \div 1000

\* Date.now() + PROVIDER_TTL_MS
ExpiresAt(now) == now + PROVIDER_TTL_MS

\* A slip: an identifier that has an entry keeps it.
AnnounceProvider_KeepExisting(map, cidObject, peerRecord, now) ==
  LET key == CIDParseToString(CIDToString(cidObject))
  IN  [threw |-> "none",
       map |-> IF MapHas(map, key) THEN map
               ELSE MapSet(map, key, [peerRecord |-> peerRecord,
                                      expiresAt |-> ExpiresAt(now)]),
       key |-> key]

\* announceProvider(contentCid, peerRecord): CID.parse throws on text that is
\* no identifier, before the Map is touched.
AnnounceProvider(map, cidObject, peerRecord, now) ==
  LET text == CIDToString(cidObject)
  IN  IF ~CIDParse(text).ok
      THEN [threw |-> "Error", map |-> map, key |-> <<>>]
      ELSE LET normalizedCid == CIDParseToString(text)
           IN  [threw |-> "none",
                map |-> MapSet(map, normalizedCid,
                               [peerRecord |-> peerRecord,
                                expiresAt |-> ExpiresAt(now)]),
                key |-> normalizedCid]

getProviderQueryCount == providerQueryCount

----------------------------------------------------------------------------
(* State *)

NoFrame == [active |-> FALSE]
NoRequest == [method |-> "", host |-> "", target |-> [path |-> <<>>, query |-> ""]]
NoCid == [version |-> 1, digest |-> ""]

NoLast ==
  [op |-> "none", req |-> NoRequest, cid |-> NoCid,
   peerRecord |-> UndefinedEntry.peerRecord,
   branch |-> "none", threw |-> "none", res |-> NewResponse, key |-> <<>>,
   now |-> 0]

\* The state once createDelegatedRouterServer has returned.
RouterInit ==
  /\ providersByCid = EmptyMap
  /\ providerQueryCount = 0
  /\ clock = 0
  /\ ticks = 0
  /\ last = NoLast
  /\ announced = EmptyMap
  /\ lookupsReceived = 0
  /\ announces = 0
  /\ inflight = NoFrame

\* The router as main starts it when DELEGATED_ROUTER_PORT is not set.
Init ==
  /\ RouterInit
  /\ serverState = "listening"
  /\ envRouterPort = [defined |-> FALSE, text |-> <<>>]
  /\ routerPort = [nan |-> FALSE, value |-> DEFAULT_ROUTER_PORT]
  /\ actualPort = DEFAULT_ROUTER_PORT
  /\ mainPc = "component"
  /\ provider = "undefined"
  /\ resolver = "undefined"
  /\ contentCid = NoCid
  /\ failure = "none"
  /\ stopErrors = {}

\* Time passes: by a millisecond, or to a millisecond before a TTL later.
TickSteps == {1, PROVIDER_TTL_MS - 1}

Tick ==
  /\ serverState = "listening"
  /\ ticks < MaxTicks
  /\ \E d \in TickSteps : clock' = clock + d
  /\ ticks' = ticks + 1
  /\ UNCHANGED <<providersByCid, providerQueryCount, serverState, last, announced,
                 lookupsReceived, announces, inflight, mainVars>>

\* History: a GET whose URL names a path under /routing/v1/providers/.
IsProviderLookup(req) ==
  /\ req.method = "GET"
  /\ req.host = GoodHost
  /\ req.target.path[1] = "/routing/v1/providers/"

\* History: the lookup of an announced identifier at or after the time its
\* announcement ran out has observed the expiry.
NoteExpiry(key, now) ==
  [c \in DOMAIN announced |->
     IF key = CIDToString(c) /\ now >= announced[c].at + PROVIDER_TTL_MS
     THEN [announced[c] EXCEPT !.seenExpired = TRUE]
     ELSE announced[c]]

\* What a finished (or thrown) handler leaves behind.  An exception thrown by
\* a request listener is uncaught: the process ends.
Settle(req, out, now1, now2) ==
  /\ providersByCid' = out.map
  /\ providerQueryCount' = out.count
  /\ clock' = now2
  /\ ticks' = ticks + (now2 - clock)
  /\ serverState' = IF out.threw = "none" THEN serverState ELSE "exited"
  /\ last' = [NoLast EXCEPT !.op = "request", !.req = req, !.branch = out.branch,
                            !.threw = out.threw, !.res = out.res, !.key = out.key,
                            !.now = now1]
  /\ announced' = NoteExpiry(out.key, now1)
  /\ lookupsReceived' = lookupsReceived + (IF IsProviderLookup(req) THEN 1 ELSE 0)
  /\ UNCHANGED announces

\* One request, handled from start to end.
Handle ==
  /\ serverState = "listening"
  /\ inflight = NoFrame
  /\ \E req \in Requests, d \in {0, 1} :
       /\ LET out == RequestHandler(req, providersByCid, providerQueryCount,
                                    clock, clock + d)
          IN  /\ d = 1 => ticks < MaxTicks /\ out.branch = "expired"
              /\ out.count <= MaxQueries
              /\ Settle(req, out, clock, clock + d)
  /\ UNCHANGED <<inflight, mainVars>>

\* History of an announce: when, what, and whose entry it replaced ("" when
\* it replaced none; an entry that was still live or not).
Announcement(cid, rec, now, map) ==
  LET prev == MapGet(map, CIDToString(cid))
  IN  [at |-> now, peerRecord |-> rec, prevID |-> prev.peerRecord.ID,
       prevLive |-> prev.expiresAt > now, seenExpired |-> FALSE]

\* The effect of router.announceProvider(cid, rec) on the router.
DoAnnounce(cid, rec) ==
  LET out == AnnounceProvider(providersByCid, cid, rec, clock)
  IN  /\ announces < MaxAnnounces
      /\ announces' = announces + 1
      /\ providersByCid' = out.map
      /\ announced' = MapSet(announced, cid,
                             Announcement(cid, rec, clock, providersByCid))
      /\ last' = [NoLast EXCEPT !.op = "announce", !.cid = cid, !.peerRecord = rec,
                                !.threw = out.threw, !.key = out.key, !.now = clock]
      /\ UNCHANGED <<providerQueryCount, clock, ticks, serverState, lookupsReceived>>

\* router.announceProvider(cid, rec), called by an in-process collaborator.
Announce ==
  /\ serverState = "listening"
  /\ inflight = NoFrame
  /\ \E cid \in AnnouncedCids, rec \in PeerRecords : DoAnnounce(cid, rec)
  /\ UNCHANGED <<inflight, mainVars>>

Next == Tick \/ Handle \/ Announce

Spec == Init /\ [][Next]_vars

----------------------------------------------------------------------------
(* The handler step by step: the event loop and the call stack *)

\* A slip: the handler gives up the stack between reading the entry and
\* acting on it (an await between get and delete).
RunsToCompletion_Yields(frame) == TRUE

\* The request listener and announceProvider are synchronous functions: once
\* the handler has read the entry, no other callback runs until it returns.
RunsToCompletion(frame) == frame = NoFrame

\* The handler's locals after const entry = providersByCid.get(normalizedCid).
Frame(req, key, map) ==
  [active |-> TRUE, req |-> req, key |-> key, hasEntry |-> MapHas(map, key),
   entry |-> MapGet(map, key)]

\* The requests sent while the steps are watched: lookups of one identifier
\* in two of its texts, an invalid one and an unroutable one.
StepRequests ==
  { r \in Requests :
      /\ r.host = GoodHost
      /\ Tail(r.target.path) \in {<<"b", "d1">>, <<"z", "d1">>, <<"n", "ot-a-cid">>} }

\* A request arrives: the handler runs down to the read of the entry.
HandlerEnter ==
  /\ serverState = "listening"
  /\ inflight = NoFrame
  /\ \E req \in StepRequests :
       LET p == HandlerPrefix(req, providersByCid, providerQueryCount)
       IN  /\ p.count <= MaxQueries
           /\ IF p.branch = "lookup"
              THEN /\ inflight' = Frame(req, p.key, providersByCid)
                   /\ providerQueryCount' = p.count
                   /\ lookupsReceived' = lookupsReceived + 1
                   /\ UNCHANGED <<providersByCid, clock, ticks, serverState, last,
                                  announced, announces>>
              ELSE /\ Settle(req, p, clock, clock)
                   /\ UNCHANGED inflight
  /\ UNCHANGED mainVars

\* The handler goes on from the entry it read to its return.
HandlerLeave ==
  /\ serverState = "listening"
  /\ inflight # NoFrame
  /\ \E d \in {0, 1} :
       LET out == LookupBranch(providersByCid, providerQueryCount, inflight.key,
                               inflight.hasEntry, inflight.entry, clock, clock + d)
       IN  /\ d = 1 => ticks < MaxTicks /\ out.branch = "expired"
           /\ providersByCid' = out.map
           /\ clock' = clock + d
           /\ ticks' = ticks + d
           /\ last' = [NoLast EXCEPT !.op = "request", !.req = inflight.req,
                                     !.branch = out.branch, !.res = out.res,
                                     !.key = out.key, !.now = clock]
           /\ announced' = NoteExpiry(out.key, clock)
  /\ inflight' = NoFrame
  /\ UNCHANGED <<providerQueryCount, serverState, lookupsReceived, announces, mainVars>>

\* announceProvider is called when the event loop lets it.
AnnounceWhenIdle ==
  /\ serverState = "listening"
  /\ RunsToCompletion(inflight)
  /\ \E cid \in AnnouncedCids, rec \in PeerRecords : DoAnnounce(cid, rec)
  /\ UNCHANGED <<inflight, mainVars>>

NextSteps == Tick \/ HandlerEnter \/ HandlerLeave \/ AnnounceWhenIdle

SpecSteps == Init /\ [][NextSteps]_vars

----------------------------------------------------------------------------
(* main *)

DEFAULT_PUBSUB_TOPIC == "/plebbit/pubsub-repro/1"

\* process.env.PUBSUB_TOPIC ?? DEFAULT_PUBSUB_TOPIC
Topics == {DEFAULT_PUBSUB_TOPIC, "/another/topic"}

\* sha256.array(bytes) of the topics above: one digest each.
Sha256(text) ==
  CASE text = "floodsub:/plebbit/pubsub-repro/1" -> "d1"
    [] text = "floodsub:/another/topic" -> "d2"
    [] OTHER -> "d3"

\* pubsubTopicToDhtKeyCid(pubsubTopic): CID.create(1, 0x55, sha256 digest)
pubsubTopicToDhtKeyCid(pubsubTopic) ==
  [version |-> 1, digest |-> Sha256("floodsub:" \o pubsubTopic)]

\* Text of the environment: a sequence of characters.
DigitChars == <<"0", "1", "2", "3", "4", "5", "6", "7", "8", "9">>
IsDigit(c) == \E i \in DOMAIN DigitChars : DigitChars[i] = c
DigitValue(c) == (CHOOSE i \in DOMAIN DigitChars : DigitChars[i] = c) - 1

NaN == [nan |-> TRUE, value |-> 0]

RECURSIVE ParseDigits(_, _)
ParseDigits(text, acc) ==
  IF text = <<>> \/ ~IsDigit(Head(text)) THEN acc
  ELSE ParseDigits(Tail(text), acc * 10 + DigitValue(Head(text)))

\* Number.parseInt(text, 10) of text without sign or leading blanks: the
\* number its leading digits spell, NaN when it starts with none.
ParseInt(text) ==
  IF text = <<>> \/ ~IsDigit(Head(text)) THEN NaN
  ELSE [nan |-> FALSE, value |-> ParseDigits(text, 0)]

\* `${n}` of a non-negative integer.
RECURSIVE NumberToString(_)
NumberToString(n) ==
  IF n < 10 THEN <<DigitChars[n + 1]>>
  ELSE NumberToString(n \div 10) \o <<DigitChars[(n % 10) + 1]>>

\* An environment variable: unset, or set to a text.
Undefined == [defined |-> FALSE, text |-> <<>>]
SetTo(text) == [defined |-> TRUE, text |-> text]

\* The values of DELEGATED_ROUTER_PORT the model starts main with.
EnvRouterPorts ==
  { Undefined, SetTo(<<"3", "0", "0", "0">>), SetTo(<<"0">>), SetTo(<<"x">>) }

\* Number.parseInt(process.env.DELEGATED_ROUTER_PORT ??
\*                 `${DEFAULT_ROUTER_PORT}`, 10)
RouterPort(env) ==
  ParseInt(IF env.defined THEN env.text ELSE NumberToString(DEFAULT_ROUTER_PORT))

\* The ports the operating system hands out when asked for any port.
EphemeralPorts == {32768, 60999}

\* server.listen(port, "127.0.0.1"), then server.address().port: a port
\* that is no number in 0..65535 throws, port 0 binds a port the operating
\* system chooses, any other port binds that port or fails (it is taken).
Listen(port) ==
  {[ok |-> FALSE, port |-> 0]} \cup
  ( IF port.nan \/ port.value \notin 0..65535 THEN {}
    ELSE IF port.value = 0 THEN {[ok |-> TRUE, port |-> p] : p \in EphemeralPorts}
    ELSE {[ok |-> TRUE, port |-> port.value]} )

InitMain ==
  /\ RouterInit
  /\ serverState = "new"
  /\ envRouterPort \in EnvRouterPorts
  /\ routerPort = NaN
  /\ actualPort = 0
  /\ mainPc = "createRouter"
  /\ provider = "undefined"
  /\ resolver = "undefined"
  /\ contentCid = NoCid
  /\ failure = "none"
  /\ stopErrors = {}

\* The process lives: no uncaught exception has ended it.
Alive == serverState # "exited"

\* const routerPort = ...; await createDelegatedRouterServer({ port:
\* routerPort }): the server listens, or listen fails and main rejects before
\* its try block.
MainCreateRouter ==
  /\ Alive /\ mainPc = "createRouter"
  /\ routerPort' = RouterPort(envRouterPort)
  /\ \E out \in Listen(routerPort') :
       /\ actualPort' = out.port
       /\ serverState' = IF out.ok THEN "listening" ELSE serverState
       /\ mainPc' = IF out.ok THEN "derive" ELSE "rejected"
  /\ UNCHANGED <<providersByCid, providerQueryCount, clock, ticks, last, announced,
                 lookupsReceived, announces, inflight, provider, resolver,
                 contentCid, failure, stopErrors, envRouterPort>>

\* const contentCid = pubsubTopicToDhtKeyCid(pubsubTopic), before the try.
MainDerive ==
  /\ Alive /\ mainPc = "derive"
  /\ \E topic \in Topics : contentCid' = pubsubTopicToDhtKeyCid(topic)
  /\ mainPc' = "createProvider"
  /\ UNCHANGED <<routerVars, inflight, provider, resolver, failure, stopErrors,
                 portVars>>

\* A statement of the try block that awaits a node: it goes on, or it throws
\* and control passes to the finally block.
TryAwait(at, next) ==
  /\ Alive /\ mainPc = at
  /\ \E ok \in BOOLEAN :
       /\ mainPc' = IF ok THEN next ELSE "stopResolver"
       /\ failure' = IF ok THEN failure ELSE at
       /\ provider' = IF ok /\ at = "createProvider" THEN "created"
                      ELSE IF ok /\ at = "startProvider" THEN "started"
                      ELSE provider
       /\ resolver' = IF ok /\ at = "createResolver" THEN "created"
                      ELSE IF ok /\ at = "startResolver" THEN "started"
                      ELSE resolver
  /\ UNCHANGED <<routerVars, inflight, contentCid, stopErrors, portVars>>

MainCreateProvider == TryAwait("createProvider", "startProvider")
MainStartProvider == TryAwait("startProvider", "announce")
MainCreateResolver == TryAwait("createResolver", "startResolver")
MainStartResolver == TryAwait("startResolver", "pubsub")

\* provider...pubsub.subscribe(topic), then router.announceProvider(contentCid,
\* { ID, Addrs, Protocols: [] }): subscribe may throw, and so would an
\* announce that throws.
MainAnnounce ==
  /\ Alive /\ mainPc = "announce"
  /\ \/ /\ \E rec \in PeerRecords : DoAnnounce(contentCid, rec)
        /\ mainPc' = IF last'.threw = "none" THEN "createResolver" ELSE "stopResolver"
        /\ failure' = IF last'.threw = "none" THEN failure ELSE "announce"
     \/ /\ mainPc' = "stopResolver"
        /\ failure' = "announce"
        /\ UNCHANGED routerVars
  /\ UNCHANGED <<inflight, provider, resolver, contentCid, stopErrors, portVars>>

\* The publish and subscribe attempts, each in its own try/catch, and the two
\* delays: whatever happens, the try block ends.
MainPubsub ==
  /\ Alive /\ mainPc = "pubsub"
  /\ mainPc' = "stopResolver"
  /\ UNCHANGED <<routerVars, inflight, provider, resolver, contentCid, failure,
                 stopErrors, portVars>>

\* A slip: stop() awaited without try/catch, its failure leaves the finally
\* block at once.
AfterStop_Uncaught(next, ok) == IF ok THEN next ELSE "rejected"

\* try { await node.stop() } catch (err) { console.log(...) }: the finally
\* block goes on either way.
AfterStop(next, ok) == next

\* finally: if (resolver) try { await resolver.stop() } catch ...
MainStopResolver ==
  /\ Alive /\ mainPc = "stopResolver"
  /\ IF resolver = "undefined"
     THEN /\ mainPc' = "stopProvider"
          /\ UNCHANGED <<resolver, stopErrors>>
     ELSE \E ok \in BOOLEAN :
            /\ mainPc' = AfterStop("stopProvider", ok)
            /\ resolver' = IF ok THEN "stopped" ELSE resolver
            /\ stopErrors' = IF ok THEN stopErrors ELSE stopErrors \cup {"resolver"}
  /\ UNCHANGED <<routerVars, inflight, provider, contentCid, failure, portVars>>

\* finally: if (provider) try { await provider.stop() } catch ...
MainStopProvider ==
  /\ Alive /\ mainPc = "stopProvider"
  /\ IF provider = "undefined"
     THEN /\ mainPc' = "close"
          /\ UNCHANGED <<provider, stopErrors>>
     ELSE \E ok \in BOOLEAN :
            /\ mainPc' = AfterStop("close", ok)
            /\ provider' = IF ok THEN "stopped" ELSE provider
            /\ stopErrors' = IF ok THEN stopErrors ELSE stopErrors \cup {"provider"}
  /\ UNCHANGED <<routerVars, inflight, resolver, contentCid, failure, portVars>>

\* finally: await new Promise((resolve) => router.server.close(resolve)); then
\* main returns, or rethrows what its try block threw.
MainClose ==
  /\ Alive /\ mainPc = "close"
  /\ serverState' = "closed"
  /\ mainPc' = IF failure = "none" THEN "done" ELSE "rejected"
  /\ UNCHANGED <<providersByCid, providerQueryCount, clock, ticks, last, announced,
                 lookupsReceived, announces, inflight, provider, resolver,
                 contentCid, failure, stopErrors, portVars>>

MainStep ==
  \/ MainCreateRouter \/ MainDerive \/ MainCreateProvider \/ MainStartProvider
  \/ MainAnnounce \/ MainCreateResolver \/ MainStartResolver \/ MainPubsub
  \/ MainStopResolver \/ MainStopProvider \/ MainClose

\* main, and the requests that reach the router while it listens.
NextMain == MainStep \/ Handle

\* Every promise main awaits settles, so main is never stuck at a step it can
\* take.
SpecMain == InitMain /\ [][NextMain]_vars /\ WF_vars(MainStep)

----------------------------------------------------------------------------
(* Properties of the router *)

\* The last operation was a request that reached the Map under cid's
\* canonical text.
LookupOf(cid) == last.op = "request" /\ last.key = CIDToString(cid)

AnsweredNone == last.res.statusCode = 404 /\ last.res.body = EmptyProviders
Answered(rec) ==
  last.res.statusCode = 200 /\ last.res.body = [Providers |-> <<rec>>]

\* The identifier segment of the last request, as sent.
LastSegment == Tail(last.req.target.path)

\* C1 (TTL correctness): after announce(id, r) at t0 and no later announce of
\* id, a lookup of id at now < t0 + TTL answers r with 200, a lookup at
\* now >= t0 + TTL answers none with 404, and no lookup answers a record
\* whose expiresAt is not strictly after now.
C1_TTLCorrectness ==
  /\ \A cid \in DOMAIN announced :
       LookupOf(cid) =>
         /\ last.now < announced[cid].at + PROVIDER_TTL_MS
              => Answered(announced[cid].peerRecord)
         /\ last.now >= announced[cid].at + PROVIDER_TTL_MS => AnsweredNone
  /\ (last.op = "request" /\ last.res.statusCode = 200)
       => /\ MapHas(providersByCid, last.key)
          /\ providersByCid[last.key].expiresAt > last.now

\* A lookup in the very millisecond the announcement runs out, answered none.
C1_Witness ==
  \E cid \in DOMAIN announced :
    /\ LookupOf(cid)
    /\ last.now = announced[cid].at + PROVIDER_TTL_MS
    /\ AnsweredNone

\* C2 (no failure past the handler): every request, whatever its method, path
\* and identifier segment, ends with a status and a body written, no
\* exception leaves the handler, and the server goes on listening.
C2_EveryRequestAnswered ==
  last.op = "request" =>
    /\ last.threw = "none"
    /\ last.res.writeHeadCalls = 1
    /\ last.res.endCalls = 1
    /\ serverState = "listening"

\* C3 (overwrite): the Map holds at most one entry per identifier, under its
\* canonical text; the entry of an identifier is the record of its last
\* announce with the expiresAt that announce computed, and a lookup that
\* answers 200 answers exactly that record.
C3_Overwrite ==
  /\ \A k1 \in DOMAIN providersByCid :
       /\ CIDParse(k1).ok
       /\ \A k2 \in DOMAIN providersByCid :
            CIDParse(k1).cid = CIDParse(k2).cid => k1 = k2
  /\ \A cid \in DOMAIN announced :
       LET key == CIDToString(cid)
       IN  /\ MapHas(providersByCid, key) =>
                providersByCid[key] =
                  [peerRecord |-> announced[cid].peerRecord,
                   expiresAt |-> announced[cid].at + PROVIDER_TTL_MS]
           /\ (LookupOf(cid) /\ last.res.statusCode = 200) =>
                /\ Len(last.res.body.Providers) = 1
                /\ last.res.body.Providers[1] = announced[cid].peerRecord

\* A second announce, later, with another record, over a live entry; then a
\* lookup that answers 200.
C3_Witness ==
  \E cid \in DOMAIN announced :
    /\ announced[cid].prevID \notin {"", announced[cid].peerRecord.ID}
    /\ announced[cid].prevLive
    /\ announced[cid].at > 0
    /\ LookupOf(cid)
    /\ last.res.statusCode = 200

\* C4 (eviction on read): once a lookup of id has observed the entry expired,
\* the entry is gone from the Map, that lookup and every later lookup of id
\* answer none, until id is announced again.
C4_EvictionOnRead ==
  \A cid \in DOMAIN announced :
    announced[cid].seenExpired =>
      /\ ~MapHas(providersByCid, CIDToString(cid))
      /\ LookupOf(cid) => AnsweredNone

\* A lookup after the one that evicted: it finds no entry.
C4_Witness ==
  \E cid \in DOMAIN announced :
    /\ announced[cid].seenExpired
    /\ LookupOf(cid)
    /\ last.branch = "miss"
    /\ providerQueryCount >= 2

\* C5 (counter): queryCount() is the number of GET requests to a path under
\* /routing/v1/providers/ received so far, whatever their outcome: it never
\* decreases, each such request adds one, and no other request and no
\* announce changes it.
C5_CounterCountsLookups == getProviderQueryCount = lookupsReceived

\* Two lookups counted, the last one with an identifier that did not parse.
C5_Witness ==
  /\ providerQueryCount = 2
  /\ last.op = "request"
  /\ last.res.statusCode = 422
  /\ announces > 0

\* Text of requests that names an identifier, and the identifier it names.
WellFormed ==
  [s \in {<<"b", "d1">>, <<"z", "d1">>, <<"%62", "d1">>} |->
     [version |-> 1, digest |-> "d1"]]

Unparseable == {<<"n", "ot-a-cid">>, <<"%">>}

\* C8 (invalid identifier): a GET provider lookup whose identifier segment
\* does not parse as a content identifier answers 422 with an empty
\* Providers list, and no exception reaches the caller.
C8_InvalidAnswered422 ==
  (last.op = "request" /\ IsProviderLookup(last.req)
     /\ LastSegment \in Unparseable) =>
    /\ last.threw = "none"
    /\ last.res.statusCode = 422
    /\ last.res.body = EmptyProviders

\* C10 (announce always succeeds): after announce(id, r) at now the call has
\* not thrown and the Map holds, for id, r with expiresAt = now + TTL,
\* whatever it held before.
C10_AnnounceSucceeds ==
  last.op = "announce" =>
    /\ last.threw = "none"
    /\ MapHas(providersByCid, CIDToString(last.cid))
    /\ providersByCid[CIDToString(last.cid)] =
         [peerRecord |-> last.peerRecord,
          expiresAt |-> last.now + PROVIDER_TTL_MS]

\* An announce over an entry that had expired and was still stored.
C10_Witness ==
  /\ last.op = "announce"
  /\ MapHas(announced, last.cid)
  /\ announced[last.cid].prevID # ""
  /\ ~announced[last.cid].prevLive

\* The identifier the text names: what CID.parse makes of the decoded text.
Names(segment) == CIDParse(decodeURIComponent(segment).value).cid
ParsesToAnIdentifier(segment) ==
  /\ decodeURIComponent(segment).ok
  /\ CIDParse(decodeURIComponent(segment).value).ok

\* C14 (one canonicalisation): every key of the Map is the canonical text of
\* the identifier it parses to, and after announce(c, r) a GET provider
\* lookup carrying any text that parses to c reaches the entry of c (the
\* key it looks up is the key announce wrote, and it answers r) for as long
\* as the entry is live.
C14_SameCanonicalisation ==
  /\ \A k \in DOMAIN providersByCid :
       CIDParse(k).ok /\ CIDToString(CIDParse(k).cid) = k
  /\ (last.op = "request" /\ IsProviderLookup(last.req)
        /\ ParsesToAnIdentifier(LastSegment)
        /\ MapHas(announced, Names(LastSegment))
        /\ last.now < announced[Names(LastSegment)].at + PROVIDER_TTL_MS) =>
       /\ last.key = CIDToString(Names(LastSegment))
       /\ Answered(announced[Names(LastSegment)].peerRecord)

\* A request that is not a GET on a path under /routing/v1/providers/, by
\* its request line.
NotAProviderGet(req) ==
  req.method # "GET" \/ req.target.path[1] # ProvidersPrefix

\* What the step that handled such a request has done, if the claim holds.
C11_UnroutableStep ==
  (last'.op = "request" /\ NotAProviderGet(last'.req)) =>
    /\ last'.threw = "none"
    /\ last'.res.statusCode = 404
    /\ last'.res.body = NotFoundBody
    /\ last'.res.body # EmptyProviders
    /\ providersByCid' = providersByCid
    /\ providerQueryCount' = providerQueryCount

\* C11 (unroutable requests): every request that is not a GET on a path
\* under /routing/v1/providers/ answers 404 with the body
\* {message: "not found"}, which is not the body of a miss, and leaves the
\* Map and the counter as they were.
C11_Unroutable404 == [][C11_UnroutableStep]_vars

\* What any step does to the Map, if the claim holds: last' is the operation
\* the step ran (a tick of the clock runs none and leaves last as it was).
C15_FrameStep ==
  /\ \A k \in DOMAIN providersByCid \ DOMAIN providersByCid' :
       /\ last'.op = "request"
       /\ last'.branch = "expired"
       /\ last'.key = k
       /\ providersByCid[k].expiresAt <= last'.now
  /\ (last'.op = "request" /\ last'.branch \in {"hit", "miss"}) =>
       providersByCid' = providersByCid
  /\ \A k \in (DOMAIN providersByCid \cup DOMAIN providersByCid') \ {last'.key} :
       /\ MapHas(providersByCid, k)
       /\ MapHas(providersByCid', k)
       /\ providersByCid'[k] = providersByCid[k]
  /\ (clock' # clock /\ last' = last) => providersByCid' = providersByCid

\* C15 (frame): an entry leaves the Map only through a lookup of its own
\* identifier that observes it expired; a lookup that hits or finds no entry
\* leaves the Map unchanged; a lookup or announce of one identifier never
\* adds, removes or alters the entry of another; and the passing of time
\* removes nothing, so an expired entry that is never looked up stays.
C15_OnlyLookupEvicts == [][C15_FrameStep]_vars

\* A lookup has just evicted its expired entry while the expired entry of
\* another identifier, which no request has looked up, is still stored.
C15_Witness ==
  /\ last.op = "request"
  /\ last.branch = "expired"
  /\ ~MapHas(providersByCid, last.key)
  /\ \E k \in DOMAIN providersByCid :
       k # last.key /\ providersByCid[k].expiresAt <= clock

\* C16 (exactly one response): every request handled has its status line
\* written exactly once, with Content-Type application/json, and its body
\* ended exactly once, with one of the statuses 200, 404 and 422.
C16_ExactlyOneResponse ==
  last.op = "request" =>
    /\ last.res.writeHeadCalls = 1
    /\ last.res.contentType = "application/json"
    /\ last.res.endCalls = 1
    /\ last.res.statusCode \in {200, 404, 422}
    /\ last.res.body # NoBody

----------------------------------------------------------------------------
(* Properties of the handler's steps *)

\* C6 (atomicity): with requests and announces arriving in any order, the
\* read-then-evict of a lookup takes effect at once: what the handler does
\* with the entry it read is what the whole handler would do run at that
\* moment on the Map as it then is, and an entry that leaves the Map had
\* expired, so no entry written by an announce after the read is removed.
C6_LookupTakesEffectAtOnce ==
  (inflight # NoFrame /\ inflight' = NoFrame) =>
    LET whole == RequestHandler(inflight.req, providersByCid,
                                providerQueryCount - 1, clock, clock')
    IN  /\ providersByCid' = whole.map
        /\ last'.res = whole.res
        /\ providerQueryCount' = whole.count
        /\ \A k \in DOMAIN providersByCid \ DOMAIN providersByCid' :
             providersByCid[k].expiresAt <= clock'

C6_Atomic == [][C6_LookupTakesEffectAtOnce]_vars

\* A handler that has read an expired entry and not yet acted on it, while an
\* announce of that identifier is still to come.
C6_Witness ==
  /\ inflight # NoFrame
  /\ inflight.hasEntry
  /\ inflight.entry.expiresAt <= clock
  /\ announces < MaxAnnounces

----------------------------------------------------------------------------
(* Properties of main *)

MainSettled == mainPc \in {"done", "rejected"}

\* C9 (the server is closed on every path): once the router listens, main
\* comes to stop it: the server is closed, on normal completion and after a
\* failure of any statement of the try block or of either stop(); main never
\* returns or rejects with the server still listening.
C9_ServerClosedOnEveryPath ==
  /\ (serverState = "listening") ~> (serverState \in {"closed", "exited"})
  /\ [](MainSettled => serverState # "listening")

\* The texts of DELEGATED_ROUTER_PORT that name a port, and the port each
\* names.
NamesPort == [t \in {<<"3", "0", "0", "0">>} |-> 3000]

\* C13 (the port): when DELEGATED_ROUTER_PORT is not set the router binds a
\* random high port, one the operating system chooses; when it is set the
\* router binds the port it names.
C13_PortBinding ==
  serverState = "listening" =>
    /\ ~envRouterPort.defined =>
          /\ routerPort = [nan |-> FALSE, value |-> 0]
          /\ actualPort \in EphemeralPorts
    /\ (envRouterPort.defined /\ envRouterPort.text \in DOMAIN NamesPort) =>
          actualPort = NamesPort[envRouterPort.text]

\* The resolver failed to start, both stop() calls failed, and the server is
\* closed.
C9_Witness ==
  /\ serverState = "closed"
  /\ mainPc = "rejected"
  /\ failure = "startResolver"
  /\ stopErrors = {"resolver", "provider"}

====
